---- MODULE Spec2Model ----
(***************************************************************************)
(* A model of scraper.py (class NOCIXScraper and main).                    *)
(*                                                                         *)
(* Representation.                                                         *)
(*  - A parsed HTML element is a record [name, str, kids]: its tag name,   *)
(*    the raw strings that are its direct text children (taken to come     *)
(*    before its child tags) and the sequence of its child tags.  An       *)
(*    element of a page is identified by its path from the document root   *)
(*    (the sequence of child indexes), which plays the part of the object  *)
(*    identity BeautifulSoup gives every tag.                              *)
(*  - A cleaned text (the result of extract_text_clean) is the sequence of *)
(*    its lines; the Python string is JoinLines of it, and it is empty     *)
(*    exactly when the sequence is.  A line is atomic: the regular         *)
(*    expressions of the program are modelled by what they match on the    *)
(*    lines of a fixed vocabulary, at the start of a line, at its end, or  *)
(*    across the line break between two successive lines.                  *)
(*  - None is the empty sequence and a returned record r is <<r>>.         *)
(***************************************************************************)
EXTENDS Integers, Sequences, FiniteSets, TLC

VARIABLES
    pc,           \* position of main / scrape_all
    i,            \* index of the URL the loop of scrape_all is at
    html,         \* what fetch_page returned for the current URL
    all_servers,  \* scrape_all's accumulating list
    output,       \* the documents written by save_to_json, in order
    warned,       \* main printed its "No servers found" warning
    log,          \* history: one entry per fetch attempt / extraction / sleep;
                  \* for a call of extract_server_details, the rows its records
                  \* were parsed from
    fn,           \* unit runs: the function that was called ("" before the call)
    arg,          \* unit runs: its argument
    ret           \* unit runs: what it returned

vars == <<pc, i, html, all_servers, output, warned, log, fn, arg, ret>>
mainVars == <<pc, i, html, all_servers, output, warned, log>>
unitVars == <<fn, arg, ret>>

\* ------------------------------------------------------------------ bounds

MaxBwTokens == 3
MaxTokens == 2
MaxCells == 6
MaxNodes == 3
MaxGap == 11

\* ------------------------------------------------------- generic helpers

RECURSIVE SeqsUpTo(_, _)
SeqsUpTo(S, n) ==
    IF n = 0 THEN {<<>>}
    ELSE LET shorter == SeqsUpTo(S, n - 1)
         IN shorter \cup {Append(s, x) : s \in {t \in shorter : Len(t) = n - 1}, x \in S}

Min(a, b) == IF a < b THEN a ELSE b

\* The indexes k of s, in increasing order, at which P(k) holds.
RECURSIVE IndexesFrom(_, _, _)
IndexesFrom(s, P(_), k) ==
    IF k > Len(s) THEN <<>>
    ELSE (IF P(k) THEN <<k>> ELSE <<>>) \o IndexesFrom(s, P, k + 1)

\* The first element of a sequence, as <<x>>, or <<>>.
FirstOf(s) == IF s = <<>> THEN <<>> ELSE <<s[1]>>

\* The first index of s at which P holds, as <<k>>, or <<>>.
FirstIndex(s, P(_)) == FirstOf(IndexesFrom(s, P, 1))

RECURSIVE JoinWith(_, _)
JoinWith(lines, sep) ==
    IF lines = <<>> THEN ""
    ELSE IF Len(lines) = 1 THEN lines[1]
    ELSE lines[1] \o sep \o JoinWith(Tail(lines), sep)

JoinLines(lines) == JoinWith(lines, "\n")

\* ---------------------------------------------- the vocabulary of lines

\* str.lower() on the vocabulary.
Lower(t) ==
    CASE t = "1Gbit" -> "1gbit"
      [] t = "100MBIT" -> "100mbit"
      [] t = "Unmetered" -> "unmetered"
      [] t = "TB" -> "tb"
      [] t = "Bandwidth" -> "bandwidth"
      [] t = "Monthly Transfer" -> "monthly transfer"
      [] t = "Transfer" -> "transfer"
      [] t = "Port" -> "port"
      [] t = "5 usable IPv4" -> "5 usable ipv4"
      [] t = "/64 IPv6" -> "/64 ipv6"
      [] t = "Instant Deployment" -> "instant deployment"
      [] t = "FREE Setup" -> "free setup"
      [] t = "Dallas" -> "dallas"
      [] t = "Phoenix" -> "phoenix"
      [] t = "DDoS Protection" -> "ddos protection"
      [] t = "IPMI" -> "ipmi"
      [] t = "Customizable" -> "customizable"
      [] t = "Intel Xeon E-2288G" -> "intel xeon e-2288g"
      [] t = "Intel Xeon" -> "intel xeon"
      [] t = " Intel Xeon " -> " intel xeon "
      [] t = "Our Servers" -> "our servers"
      [] t = "Custom Servers" -> "custom servers"
      [] t = "3.7Ghz" -> "3.7ghz"
      [] t = "8 Cores / 16 threads" -> "8 cores / 16 threads"
      [] t = "AMD Ryzen 5 " -> "amd ryzen 5 "
      [] t = " 4 Cores" -> " 4 cores"
      [] t = "16GB DDR4" -> "16gb ddr4"
      [] t = "2x 480GB SSD" -> "2x 480gb ssd"
      [] t = "Order Now" -> "order now"
      [] OTHER -> t

\* (\d+[MG]bit) matched at the end of line t, ignoring case: the text of the
\* group, or "".
RateTail(t) == IF Lower(t) \in {"1gbit", "100mbit"} THEN t ELSE ""

\* Line t starts with "unmetered" / ends with it, ignoring case.
UnmeteredHead(t) == Lower(t) = "unmetered"
UnmeteredTail(t) == Lower(t) = "unmetered"

\* The digits line t ends with (spaces may follow them), or "".
DigitsTail(t) ==
    CASE t = "10" -> "10"
      [] t = "5 usable IPv4" -> "4"
      [] t = "/64 IPv6" -> "6"
      [] t = "16GB DDR4" -> "4"
      [] t = "AMD Ryzen 5 " -> "5"
      [] t = "$99" -> "99"
      [] OTHER -> ""

\* Line t starts with "TB", ignoring case: the text matched, or "".
TBHead(t) == IF Lower(t) = "tb" THEN t ELSE ""

\* Line t ends with (\d+)\s*TB, ignoring case: <<group 0, group 1>>, or <<>>.
DigitsTBTail(t) == IF Lower(t) = "10tb" THEN <<t, "10">> ELSE <<>>

\* Line t starts with (?:Monthly Transfer|Bandwidth), ignoring case: the text
\* matched, or "".
TransferHead(t) == IF Lower(t) \in {"monthly transfer", "bandwidth"} THEN t ELSE ""

\* Line t starts with (?:Bandwidth|Transfer), ignoring case.
BandwidthHead(t) == IF Lower(t) \in {"bandwidth", "transfer"} THEN t ELSE ""

PortHead(t) == Lower(t) = "port"

\* A match object: group 0 and the captured groups (lastindex is their number).
Match(g0, groups) == [g0 |-> g0, groups |-> groups]

\* re.search(r'(\d+[MG]bit)\s+unmetered', text, re.IGNORECASE)
\* The match that starts in line k[1] of text, if there is one.
RateUnmeteredMatch(text, k) ==
    IF k = <<>> THEN <<>>
    ELSE <<Match(RateTail(text[k[1]]) \o "\n" \o text[k[1] + 1], <<RateTail(text[k[1]])>>)>>

SearchRateUnmetered(text) ==
    RateUnmeteredMatch(text, FirstIndex(text, LAMBDA j : /\ j < Len(text)
                                                         /\ RateTail(text[j]) # ""
                                                         /\ UnmeteredHead(text[j + 1])))

\* The optional tail (?:Monthly Transfer|Bandwidth)? of the TB pattern, tried
\* at line j of text (past its end it matches empty).
OptTransfer(text, j) == IF j <= Len(text) THEN TransferHead(text[j]) ELSE ""

\* re.search(r'(\d+)\s*TB\s+(?:Monthly Transfer|Bandwidth)?', text, re.IGNORECASE)
\* The \s+ after TB needs a line after the one TB ends.
\* The number and TB are in line j / the number ends line j and TB starts the
\* next line.
TBInLine(text, j) == DigitsTBTail(text[j]) # <<>> /\ j < Len(text)

TBAcross(text, j) ==
    /\ j + 1 < Len(text)
    /\ DigitsTail(text[j]) # ""
    /\ TBHead(text[j + 1]) # ""

\* The match that starts in line k[1] of text, if there is one.
TBMatch(text, k) ==
    IF k = <<>> THEN <<>>
    ELSE IF TBInLine(text, k[1])
    THEN <<Match(DigitsTBTail(text[k[1]])[1] \o "\n" \o OptTransfer(text, k[1] + 1),
                 <<DigitsTBTail(text[k[1]])[2]>>)>>
    ELSE <<Match(DigitsTail(text[k[1]]) \o "\n" \o TBHead(text[k[1] + 1]) \o "\n"
                     \o OptTransfer(text, k[1] + 2),
                 <<DigitsTail(text[k[1]])>>)>>

SearchTB(text) ==
    TBMatch(text, FirstIndex(text, LAMBDA j : TBInLine(text, j) \/ TBAcross(text, j)))

\* re.search(r'Unmetered\s+(?:Bandwidth|Transfer)', text, re.IGNORECASE)
\* The match that starts in line k[1] of text, if there is one.
UnmeteredBandwidthMatch(text, k) ==
    IF k = <<>> THEN <<>>
    ELSE <<Match(text[k[1]] \o "\n" \o BandwidthHead(text[k[1] + 1]), <<>>)>>

SearchUnmeteredBandwidth(text) ==
    UnmeteredBandwidthMatch(text, FirstIndex(text, LAMBDA j : /\ j < Len(text)
                                                              /\ UnmeteredTail(text[j])
                                                              /\ BandwidthHead(text[j + 1]) # ""))

\* The list bandwidth_patterns, each pattern named by what it looks for.
bandwidth_patterns == <<"rate unmetered", "TB", "unmetered bandwidth">>

re_search(pattern, text) ==
    CASE pattern = "rate unmetered" -> SearchRateUnmetered(text)
      [] pattern = "TB" -> SearchTB(text)
      [] pattern = "unmetered bandwidth" -> SearchUnmeteredBandwidth(text)

\* Line t contains the phrase (given in lower case), ignoring case.
LineHas(t, phrase) ==
    \/ Lower(t) = phrase
    \/ phrase = "ddos" /\ Lower(t) = "ddos protection"

\* re.search(phrase, text, re.IGNORECASE) for a phrase that lies in one line,
\* and the test phrase in text.lower().
PhraseInText(text, phrase) == \E j \in 1..Len(text) : LineHas(text[j], phrase)

\* 'unmetered' in text.lower()
UnmeteredInText(text) == PhraseInText(text, "unmetered")

\* A variant that would always keep the matched span.
BandwidthOfMatch_Raw(m, text) == m.g0

\* The value details['bandwidth'] gets from a match of some pattern.
BandwidthOfMatch(m, text) ==
    IF UnmeteredInText(text)
    THEN (IF m.groups # <<>> THEN m.groups[1] ELSE "Unmetered") \o " unmetered"
    ELSE m.g0

\* The loop over bandwidth_patterns, from pattern k on: the first pattern that
\* matches (m is what the search for pattern k gave) sets the field and ends
\* the loop.
RECURSIVE BandwidthLoop(_, _), BandwidthStep(_, _, _)
BandwidthStep(text, k, m) ==
    IF m # <<>> THEN BandwidthOfMatch(m[1], text) ELSE BandwidthLoop(text, k + 1)

BandwidthLoop(text, k) ==
    IF k > Len(bandwidth_patterns) THEN ""
    ELSE BandwidthStep(text, k, re_search(bandwidth_patterns[k], text))

\* re.search(r'(\d+[MG]bit)\s+Port', text, re.IGNORECASE): group 1, or "".
PortSpeedAt(text, k) == IF k = <<>> THEN "" ELSE RateTail(text[k[1]])

PortSpeed(text) ==
    PortSpeedAt(text, FirstIndex(text, LAMBDA j : /\ j < Len(text)
                                                  /\ RateTail(text[j]) # ""
                                                  /\ PortHead(text[j + 1])))

\* (\d+)\s+usable\s+IPv4 inside line t: group 1, or "".
Ipv4In(t) == IF Lower(t) = "5 usable ipv4" THEN "5" ELSE ""

\* /(\d+)\s+IPv6 inside line t: group 1, or "".
Ipv6In(t) == IF Lower(t) = "/64 ipv6" THEN "64" ELSE ""

\* The group 1 of the first line of text that In(line) matches, or "".
GroupAt(text, In(_), k) == IF k = <<>> THEN "" ELSE In(text[k[1]])

FirstGroup(text, In(_)) ==
    GroupAt(text, In, FirstIndex(text, LAMBDA j : In(text[j]) # ""))

\* before + group + after for a group that matched, "" for none.
Format(before, g, after) == IF g = "" THEN "" ELSE before \o g \o after

Ipv4Addresses(text) == Format("", FirstGroup(text, Ipv4In), " usable IPv4")

Ipv6Addresses(text) == Format("/", FirstGroup(text, Ipv6In), " IPv6 Block")

locations ==
    <<"Dallas", "Charlotte", "Lenoir", "Kansas", "Phoenix", "Denver", "Los Angeles", "New York">>

\* loc.lower() in text.lower()
LocationInText(text, loc) == PhraseInText(text, Lower(loc))

\* The loop over locations: the first entry of the list found in the text.
LocationAt(k) == IF k = <<>> THEN "" ELSE locations[k[1]]

Location(text) ==
    LocationAt(FirstIndex(locations, LAMBDA j : LocationInText(text, locations[j])))

AdditionalFeatures(text) ==
    (IF PhraseInText(text, "ddos") THEN <<"DDoS Protection">> ELSE <<>>)
    \o (IF PhraseInText(text, "ipmi") THEN <<"IPMI">> ELSE <<>>)
    \o (IF PhraseInText(text, "customizable") THEN <<"Customizable">> ELSE <<>>)

EmptyDetails ==
    [bandwidth |-> "", port_speed |-> "", ipv4_addresses |-> "", ipv6_addresses |-> "",
     instant_deployment |-> FALSE, free_setup |-> FALSE, location |-> "",
     additional_features |-> <<>>]

parse_included_column(text) ==
    IF text = <<>> THEN EmptyDetails
    ELSE [bandwidth |-> BandwidthLoop(text, 1),
          port_speed |-> PortSpeed(text),
          ipv4_addresses |-> Ipv4Addresses(text),
          ipv6_addresses |-> Ipv6Addresses(text),
          instant_deployment |-> PhraseInText(text, "instant deployment"),
          free_setup |-> PhraseInText(text, "free setup"),
          location |-> Location(text),
          additional_features |-> AdditionalFeatures(text)]

\* ------------------------------------------------------- parsed elements

E(name, str, kids) == [name |-> name, str |-> str, kids |-> kids]

\* The element at path p under element n.
RECURSIVE NodeAt(_, _)
NodeAt(n, p) == IF p = <<>> THEN n ELSE NodeAt(n.kids[Head(p)], Tail(p))

\* The paths of the tags below the element n (whose own path is p), in
\* document order.
RECURSIVE DescPaths(_, _), KidPaths(_, _, _)
KidPaths(n, p, k) ==
    IF k > Len(n.kids) THEN <<>>
    ELSE <<Append(p, k)>> \o DescPaths(n.kids[k], Append(p, k)) \o KidPaths(n, p, k + 1)

DescPaths(n, p) == KidPaths(n, p, 1)

\* tag.find_all(names): the tags below the element at p with one of the names,
\* in document order.
find_all(root, p, names) ==
    SelectSeq(DescPaths(NodeAt(root, p), p), LAMBDA q : NodeAt(root, q).name \in names)

\* tag.find(names): the first of them, or None.
find(root, p, names) == FirstOf(find_all(root, p, names))

\* tag.find_next_siblings(limit=limit): the tags after the element at p under
\* the same parent, nearest first, at most limit of them.
\* A variant that would not honour the limit.
find_next_siblings_NoLimit(root, p, limit) ==
    [k \in 1..(Len(NodeAt(root, SubSeq(p, 1, Len(p) - 1)).kids) - p[Len(p)]) |->
        Append(SubSeq(p, 1, Len(p) - 1), p[Len(p)] + k)]

find_next_siblings(root, p, limit) ==
    [k \in 1..Min(Len(NodeAt(root, SubSeq(p, 1, Len(p) - 1)).kids) - p[Len(p)], limit) |->
        Append(SubSeq(p, 1, Len(p) - 1), p[Len(p)] + k)]

\* All the strings below an element, in document order.
RECURSIVE Strings(_), KidStrings(_, _)
KidStrings(n, k) ==
    IF k > Len(n.kids) THEN <<>> ELSE Strings(n.kids[k]) \o KidStrings(n, k + 1)

Strings(n) == n.str \o KidStrings(n, 1)

\* tag.string: the single string of a tag that holds one string and no tag, or
\* of the single child of a tag that holds one tag and no string; else None.
RECURSIVE TagString(_)
TagString(n) ==
    IF Len(n.str) = 1 /\ n.kids = <<>> THEN <<n.str[1]>>
    ELSE IF n.str = <<>> /\ Len(n.kids) = 1 THEN TagString(n.kids[1])
    ELSE <<>>

\* ------------------------------------------------------ extract_text_clean

\* str.strip() on the raw strings of the vocabulary.
Strip(s) ==
    CASE s = " " -> ""
      [] s = " 16GB  DDR4 " -> "16GB  DDR4"
      [] s = " Intel Xeon " -> "Intel Xeon"
      [] s = " 4 Cores" -> "4 Cores"
      [] s = "AMD Ryzen 5 " -> "AMD Ryzen 5"
      [] OTHER -> s

\* What the two substitutions (runs of newlines to one newline, runs of spaces
\* to one space) leave of a stripped string, as its lines.
CleanLines(s) ==
    CASE s = "16GB  DDR4" -> <<"16GB DDR4">>
      [] s = "AMD Ryzen 5 \n\n 4 Cores" -> <<"AMD Ryzen 5 ", " 4 Cores">>
      [] OTHER -> <<s>>

\* get_text(separator='\n', strip=True): every string stripped, the empty ones
\* dropped; then the substitutions.  The result as its lines.
RECURSIVE StripAll(_)
StripAll(strs) ==
    IF strs = <<>> THEN <<>>
    ELSE (IF Strip(Head(strs)) # "" THEN <<Strip(Head(strs))>> ELSE <<>>) \o StripAll(Tail(strs))

RECURSIVE CleanAll(_)
CleanAll(strs) ==
    IF strs = <<>> THEN <<>> ELSE CleanLines(Head(strs)) \o CleanAll(Tail(strs))

extract_text_clean(element) == CleanAll(StripAll(Strings(element)))

\* ------------------------------------------------------------- parse_price

\* \$(\d+(?:\.\d{2})?)\s*(?:/\s*month|/mo)? inside a line: group 1, or "".
PriceIn(t) ==
    CASE t = "$149.99/mo" -> "149.99"
      [] t = "$99" -> "99"
      [] OTHER -> ""

parse_price(text) ==
    IF text = <<>> THEN "" ELSE Format("$", FirstGroup(text, PriceIn), "/month")

\* -------------------------------------------------------- parse_server_row

\* (\d+\.?\d*)\s*Ghz inside a line, ignoring case: group 1, or "".
GhzIn(t) == IF t = "3.7Ghz" THEN "3.7" ELSE ""

\* (\d+)\s+Cores?\s*/\s*(\d+)\s+threads? inside a line, ignoring case: the two
\* groups, or <<>>.
CoresThreadsIn(t) == IF t = "8 Cores / 16 threads" THEN <<"8", "16">> ELSE <<>>

\* (\d+)\s+Cores? inside a line, ignoring case: group 1, or "".
CoresIn(t) ==
    CASE t = "8 Cores / 16 threads" -> "8"
      [] t = "4 Cores" -> "4"
      [] OTHER -> ""

EmptyProcessor == [name |-> "", speed |-> "", cores |-> "", threads |-> ""]

\* The processor sub-record from the cleaned text of cell 1.
\* The fields of the processor from its lines; both is where the pattern of
\* cores and threads matched, if it did.
ProcessorOf(lines, both) ==
    [name |-> IF lines # <<>> THEN lines[1] ELSE "",
     speed |-> Format("", FirstGroup(lines, GhzIn), "GHz"),
     cores |-> IF both # <<>> THEN CoresThreadsIn(lines[both[1]])[1]
               ELSE FirstGroup(lines, CoresIn),
     threads |-> IF both # <<>> THEN CoresThreadsIn(lines[both[1]])[2] ELSE ""]

ProcessorOfLines(lines) ==
    ProcessorOf(lines, FirstIndex(lines, LAMBDA j : CoresThreadsIn(lines[j]) # <<>>))

\* lines = [line.strip() for line in processor_text.split('\n') if line.strip()]
Processor(processor_text) ==
    IF processor_text = <<>> THEN EmptyProcessor
    ELSE ProcessorOfLines(StripAll(processor_text))

\* The price from cell 5: the text of its first link or button if it has one,
\* else its own text.
PriceElement(price_cell, button) == IF button # <<>> THEN button[1] ELSE price_cell

Price(root, price_cell) ==
    parse_price(extract_text_clean(
        NodeAt(root, PriceElement(price_cell, find(root, price_cell, {"a", "button"})))))

\* A variant that would let a row of 4 cells through.
SkipRow_OffByOne(root, row) ==
    Len(find_all(root, row, {"td"})) < 4 \/ find(root, row, {"th"}) # <<>>

\* The row is skipped: it holds fewer than 5 td cells, or a th.
SkipRow(root, row) ==
    Len(find_all(root, row, {"td"})) < 5 \/ find(root, row, {"th"}) # <<>>

\* The cleaned text of cell k (counted from 0) of cells, if there is one.
CellText(root, cells, k) ==
    IF Len(cells) > k THEN extract_text_clean(NodeAt(root, cells[k + 1])) ELSE <<>>

Server(category, processor, ram, storage, included_details, price) ==
    [category |-> category,
     processor |-> processor,
     ram |-> ram,
     storage |-> storage,
     bandwidth |-> included_details.bandwidth,
     port_speed |-> included_details.port_speed,
     ipv4_addresses |-> included_details.ipv4_addresses,
     ipv6_addresses |-> included_details.ipv6_addresses,
     location |-> included_details.location,
     price |-> price,
     instant_deployment |-> included_details.instant_deployment,
     free_setup |-> included_details.free_setup,
     additional_features |-> included_details.additional_features]

\* The record built from the td cells of a row that is not skipped.
ServerOfCells(root, cells, category) ==
    Server(category,
           Processor(CellText(root, cells, 1)),
           JoinLines(CellText(root, cells, 2)),
           JoinLines(CellText(root, cells, 3)),
           parse_included_column(CellText(root, cells, 4)),
           IF Len(cells) > 5 THEN Price(root, cells[6]) ELSE "")

ServerOf(root, row, category) ==
    ServerOfCells(root, find_all(root, row, {"td"}), category)

\* A variant that would keep every row that was not skipped.
Essential_Always(server) == TRUE

\* The record has essential data.
Essential(server) ==
    server.processor.name # "" \/ server.ram # "" \/ server.storage # ""

\* "Only return if we have essential data"
Retain(server) == IF Essential(server) THEN <<server>> ELSE <<>>

\* parse_server_row on the row at path row of the tree root.
parse_server_row(root, row, category) ==
    IF SkipRow(root, row) THEN <<>> ELSE Retain(ServerOf(root, row, category))

\* -------------------------------------------------- extract_server_details

\* re.compile(r'AMD|Intel|Opteron|Xeon|EPYC|Ryzen|Core Series', re.IGNORECASE)
\* .search(s) on the strings of the vocabulary.
VendorPattern(s) ==
    Lower(s) \in {" intel xeon ", "intel xeon", "intel xeon e-2288g", "amd epyc", "amd ryzen 5 "}

\* soup.find_all(['h2', 'h3', 'h4'], string=<the vendor pattern>)
StringMatches(str) == str # <<>> /\ VendorPattern(str[1])

section_headers(root) ==
    SelectSeq(find_all(root, <<>>, {"h2", "h3", "h4"}),
              LAMBDA h : StringMatches(TagString(NodeAt(root, h))))

SiblingLimit == 10

SkippedSections == {"Instant Activation Preconfigured Servers", "Custom Servers"}

\* The loop over the siblings of a header, from sibling k on: the sibling
\* itself if it is a table, else the first table in it, else go on.
RECURSIVE TableAmong(_, _, _), TableIn(_, _, _, _)
TableIn(root, siblings, k, table) ==
    IF table # <<>> THEN table ELSE TableAmong(root, siblings, k + 1)

TableAmong(root, siblings, k) ==
    IF k > Len(siblings) THEN <<>>
    ELSE IF NodeAt(root, siblings[k]).name = "table" THEN <<siblings[k]>>
    ELSE TableIn(root, siblings, k, find(root, siblings[k], {"table"}))

\* The loop over the rows of a table, from row k on: what it appends to
\* servers, each record with the row it was parsed from.
\* "if server_data: servers.append(server_data)"
Appended(row, server_data) ==
    IF server_data # <<>> THEN <<[row |-> row, server |-> server_data[1]]>> ELSE <<>>

RECURSIVE ParseRows(_, _, _, _)
ParseRows(root, rows, category, k) ==
    IF k > Len(rows) THEN <<>>
    ELSE Appended(rows[k], parse_server_row(root, rows[k], category))
         \o ParseRows(root, rows, category, k + 1)

\* One pass of the loop over section_headers.
\* "if table:" the rows of the table, parsed with the category given.
TableRows(root, table, category) ==
    IF table = <<>> THEN <<>>
    ELSE ParseRows(root, find_all(root, table[1], {"tr"}), category, 1)

SectionNamed(root, header, category, section_name) ==
    IF section_name \in SkippedSections THEN <<>>
    ELSE TableRows(root,
                   TableAmong(root, find_next_siblings(root, header, SiblingLimit), 1),
                   category \o " - " \o section_name)

SectionOf(root, header, category) ==
    SectionNamed(root, header, category,
                 JoinLines(extract_text_clean(NodeAt(root, header))))

RECURSIVE Sections(_, _, _, _)
Sections(root, headers, category, k) ==
    IF k > Len(headers) THEN <<>>
    ELSE SectionOf(root, headers[k], category) \o Sections(root, headers, category, k + 1)

\* The loop over all the tables of the page.
RECURSIVE AllTables(_, _, _, _)
AllTables(root, tables, category, k) ==
    IF k > Len(tables) THEN <<>>
    ELSE ParseRows(root, find_all(root, tables[k], {"tr"}), category, 1)
         \o AllTables(root, tables, category, k + 1)

\* A variant without the pass over all the tables.
OrAllTables_Never(root, category, servers) == servers

\* extract_server_details, each record of servers with the row it came from.
\* "if not servers:" all the tables of the page.
OrAllTables(root, category, servers) ==
    IF servers = <<>>
    THEN AllTables(root, find_all(root, <<>>, {"table"}), category, 1)
    ELSE servers

ExtractWithRows(root, category) ==
    OrAllTables(root, category, Sections(root, section_headers(root), category, 1))

\* The records of a list of records with their rows, and the rows.
RECURSIVE Servers(_)
Servers(found) ==
    IF found = <<>> THEN <<>> ELSE <<Head(found).server>> \o Servers(Tail(found))

RECURSIVE SourceRows(_)
SourceRows(found) ==
    IF found = <<>> THEN <<>> ELSE <<Head(found).row>> \o SourceRows(Tail(found))

extract_server_details(root, category) == Servers(ExtractWithRows(root, category))

\* ------------------------------------------------------ scrape_all and main

urls ==
    <<"https://www.nocix.net/dedicated/",
      "https://www.nocix.net/custom-dedicated-servers/",
      "https://www.nocix.net/game-dedicated-servers/",
      "https://www.nocix.net/enterprise-dedicated-servers/",
      "https://www.nocix.net/high-performance-dedicated-servers/",
      "https://www.nocix.net/legacy-and-budget-dedicated-servers/">>

\* url.rstrip('/').split('/')[-1].replace('-', ' ').title() on the configured
\* URLs.
TitleOfPath(url) ==
    CASE url = "https://www.nocix.net/dedicated/" -> "Dedicated"
      [] url = "https://www.nocix.net/custom-dedicated-servers/" -> "Custom Dedicated Servers"
      [] url = "https://www.nocix.net/game-dedicated-servers/" -> "Game Dedicated Servers"
      [] url = "https://www.nocix.net/enterprise-dedicated-servers/"
            -> "Enterprise Dedicated Servers"
      [] url = "https://www.nocix.net/high-performance-dedicated-servers/"
            -> "High Performance Dedicated Servers"
      [] url = "https://www.nocix.net/legacy-and-budget-dedicated-servers/"
            -> "Legacy And Budget Dedicated Servers"

Category(url) ==
    IF TitleOfPath(url) = "Dedicated" THEN "Dedicated Servers" ELSE TitleOfPath(url)

\* What requests.get and raise_for_status can come to: an exception (no
\* connection, timeout), a response with an error status, or a response with a
\* success status and a body.  A body is empty (the string "") or holds the
\* page that BeautifulSoup parses it to.
Body(empty, soup) == [empty |-> empty, soup |-> soup]

Response(raised, status, body) == [raised |-> raised, status |-> status, body |-> body]

\* fetch_page: None on a RequestException, which raise_for_status raises on a
\* status of 400 or more; else the body.
fetch_page(response) ==
    IF response.raised \/ response.status >= 400 THEN <<>> ELSE <<response.body>>

\* "if html:"
Truthy(h) == h # <<>> /\ ~h[1].empty

\* save_to_json's document (scraped_at, the time of the call, is left out).
save_to_json(data) == [total_servers |-> Len(data), servers |-> data]

\* ---------------------------------------------------------------- inputs

BandwidthTokens ==
    {"1Gbit", "100MBIT", "unmetered", "Unmetered", "10", "TB", "10tb", "Bandwidth",
     "Monthly Transfer", "Transfer", "Port"}

IncludedTokens ==
    BandwidthTokens \cup
    {"5 usable IPv4", "/64 IPv6", "Instant Deployment", "FREE Setup", "Dallas",
     "Phoenix", "DDoS Protection", "IPMI", "Customizable"}

IncludedTexts ==
    SeqsUpTo(BandwidthTokens, MaxBwTokens) \cup SeqsUpTo(IncludedTokens, MaxTokens)

\* Rows.  A row is built from the texts of its six columns (image, processor,
\* RAM, storage, included, price), cut to its first ntd cells, with a th in
\* front when th is set; the storage cell holds the tags of inner.
ProcessorCells ==
    {<<>>, <<" ">>, <<"Intel Xeon E-2288G", "3.7Ghz", "8 Cores / 16 threads">>,
     <<"AMD Ryzen 5 \n\n 4 Cores">>}

RamCells == {<<>>, <<" ">>, <<" 16GB  DDR4 ">>}

StorageCells == {<<>>, <<"2x 480GB SSD">>}

IncludedCells ==
    {<<>>, <<"10tb", "Bandwidth", "1Gbit", "Port", "5 usable IPv4", "Dallas">>,
     <<"1Gbit", "unmetered", "FREE Setup">>}

PriceCells ==
    {E("td", <<"Order Now">>, <<>>),
     E("td", <<"$99">>, <<>>),
     E("td", <<>>, <<E("a", <<"$149.99/mo">>, <<>>)>>)}

TD(str) == E("td", str, <<>>)

InnerRow == E("tr", <<>>, <<TD(<<>>), TD(<<"Intel Xeon">>), TD(<<>>), TD(<<>>), TD(<<"IPMI">>)>>)
InnerHeader == E("tr", <<>>, <<E("th", <<"Processor">>, <<>>), E("th", <<"RAM">>, <<>>)>>)

InnerTables == {<<>>, <<E("table", <<>>, <<InnerRow>>)>>, <<E("table", <<>>, <<InnerHeader>>)>>}

RowOf(ntd, th, proc, ram, sto, incl, price, inner) ==
    LET six == <<E("td", <<>>, <<E("img", <<>>, <<>>)>>), TD(proc), TD(ram),
                 E("td", sto, inner), TD(incl), price>>
        tds == [k \in 1..ntd |-> IF k <= 6 THEN six[k] ELSE TD(<<"Order Now">>)]
    IN E("tr", <<>>, (IF th THEN <<E("th", <<"Processor">>, <<>>)>> ELSE <<>>) \o tds)

Rows ==
    {RowOf(ntd, th, proc, ram, sto, incl, price, inner) :
        ntd \in 0..MaxCells, th \in BOOLEAN, proc \in ProcessorCells, ram \in RamCells,
        sto \in StorageCells, incl \in IncludedCells, price \in PriceCells,
        inner \in InnerTables}

Categories == {"Dedicated Servers", "Game Dedicated Servers"}

PageCategories == {"Dedicated Servers"}

\* Pages.  A page is the parsed document: its root with a sequence of nodes
\* under it.
HeaderIntel == E("h3", <<" Intel Xeon ">>, <<>>)
HeaderAmd == E("h2", <<>>, <<E("span", <<"amd epyc">>, <<>>)>>)
HeaderOther == E("h2", <<"Our Servers">>, <<>>)
Paragraph == E("p", <<"Order Now">>, <<>>)

HeaderRow == E("tr", <<>>, <<E("th", <<"Processor">>, <<>>), E("th", <<"RAM">>, <<>>)>>)
GoodRow ==
    RowOf(6, FALSE, <<"Intel Xeon E-2288G", "3.7Ghz", "8 Cores / 16 threads">>,
          <<" 16GB  DDR4 ">>, <<"2x 480GB SSD">>,
          <<"10tb", "Bandwidth", "1Gbit", "Port", "5 usable IPv4", "Dallas">>,
          E("td", <<>>, <<E("a", <<"$149.99/mo">>, <<>>)>>), <<>>)
RamOnlyRow ==
    RowOf(5, FALSE, <<>>, <<" 16GB  DDR4 ">>, <<>>, <<"1Gbit", "unmetered", "FREE Setup">>,
          E("td", <<"$99">>, <<>>), <<>>)
BlankRow == RowOf(6, FALSE, <<" ">>, <<>>, <<" ">>, <<"1Gbit", "unmetered", "FREE Setup">>,
                  E("td", <<"$99">>, <<>>), <<>>)
ShortRow == RowOf(4, FALSE, <<"AMD Ryzen 5 \n\n 4 Cores">>, <<" 16GB  DDR4 ">>,
                  <<"2x 480GB SSD">>, <<>>, E("td", <<"$99">>, <<>>), <<>>)
NestingRow ==
    RowOf(6, FALSE, <<"AMD Ryzen 5 \n\n 4 Cores">>, <<>>, <<>>, <<>>,
          E("td", <<"$99">>, <<>>), <<E("table", <<>>, <<InnerRow>>)>>)

TableGood == E("table", <<>>, <<HeaderRow, GoodRow, BlankRow>>)
TableEmpty == E("table", <<>>, <<HeaderRow, ShortRow, BlankRow>>)
TableNesting == E("table", <<>>, <<NestingRow>>)
DivTable == E("div", <<>>, <<Paragraph, E("table", <<>>, <<RamOnlyRow>>)>>)
DivSection == E("div", <<>>, <<HeaderIntel, E("table", <<>>, <<RamOnlyRow, ShortRow>>)>>)

Nodes ==
    {HeaderIntel, HeaderAmd, HeaderOther, TableGood, TableEmpty, TableNesting, DivTable,
     DivSection}

Document(nodes) == E("[document]", <<>>, nodes)

\* A matched header, then gap paragraphs, then a table or a block holding one.
GapPage(gap, last) == Document(<<HeaderIntel>> \o [k \in 1..gap |-> Paragraph] \o <<last>>)

Pages ==
    {Document(nodes) : nodes \in SeqsUpTo(Nodes, MaxNodes)}
    \cup {GapPage(gap, last) : gap \in 0..MaxGap, last \in {TableGood, DivTable}}

\* The pages the site serves in a run of main: one with a section, and one
\* whose rows are all rejected.
SitePages ==
    {Document(<<HeaderIntel, TableGood>>),
     Document(<<HeaderAmd, TableEmpty>>)}

Responses ==
    {Response(TRUE, 0, Body(TRUE, Document(<<>>))),
     Response(FALSE, 500, Body(FALSE, Document(<<HeaderOther>>))),
     Response(FALSE, 200, Body(TRUE, Document(<<>>)))}
    \cup {Response(FALSE, 200, Body(FALSE, page)) : page \in SitePages}

\* servers = self.extract_server_details(html, category) in scrape_all, for
\* each URL (by its index in urls) and each page the site serves.
servers ==
    [u \in 1..Len(urls) |->
        [page \in SitePages |-> extract_server_details(page, Category(urls[u]))]]

\* --------------------------------------------------------- specifications

Init ==
    /\ pc = "start"
    /\ i = 1
    /\ html = <<>>
    /\ all_servers = <<>>
    /\ output = <<>>
    /\ warned = FALSE
    /\ log = <<>>
    /\ fn = ""
    /\ arg = <<>>
    /\ ret = <<>>

\* One call of parse_included_column on a cleaned text.
CallParseIncluded ==
    /\ fn = ""
    /\ \E text \in IncludedTexts :
          /\ fn' = "parse_included_column"
          /\ arg' = text
          /\ ret' = parse_included_column(text)
    /\ UNCHANGED mainVars

SpecIncluded == Init /\ [][CallParseIncluded]_vars

\* One call of parse_server_row on a row (the row is the root of its tree).
CallParseServerRow ==
    /\ fn = ""
    /\ \E row \in Rows, category \in Categories :
          /\ fn' = "parse_server_row"
          /\ arg' = [row |-> row, category |-> category]
          /\ ret' = parse_server_row(row, <<>>, category)
    /\ UNCHANGED mainVars

SpecRow == Init /\ [][CallParseServerRow]_vars

\* One call of extract_server_details on a page; log keeps the row each
\* returned record was parsed from.
Extracted(page, category, found) ==
    /\ fn' = "extract_server_details"
    /\ arg' = [page |-> page, category |-> category]
    /\ ret' = Servers(found)
    /\ log' = SourceRows(found)

CallExtract ==
    /\ fn = ""
    /\ \E page \in Pages, category \in PageCategories :
          Extracted(page, category, ExtractWithRows(page, category))
    /\ UNCHANGED <<pc, i, html, all_servers, output, warned>>

SpecPage == Init /\ [][CallExtract]_vars

\* ---------------------------------------------- the steps of main

\* An entry of the history: what was done, for which URL (its index), and for
\* a fetch what fetch_page returned.
Entry(op, url, h) == [op |-> op, url |-> url, html |-> h]

\* main: scraper = NOCIXScraper(); scrape_all starts with an empty list.
Start ==
    /\ pc = "start"
    /\ pc' = "loop"
    /\ i' = 1
    /\ all_servers' = <<>>
    /\ UNCHANGED <<html, output, warned, log, fn, arg, ret>>

\* for url in self.urls: the next URL, or the end of the loop and the return.
LoopNext ==
    /\ pc = "loop"
    /\ pc' = IF i <= Len(urls) THEN "fetch" ELSE "returned"
    /\ UNCHANGED <<i, html, all_servers, output, warned, log, fn, arg, ret>>

\* html = self.fetch_page(url)
Fetch ==
    /\ pc = "fetch"
    /\ \E response \in Responses :
          /\ html' = fetch_page(response)
          /\ log' = Append(log, Entry("fetch", i, fetch_page(response)))
    /\ pc' = "branch"
    /\ UNCHANGED <<i, all_servers, output, warned, fn, arg, ret>>

\* A variant that would keep only the records of the last page.
Extract_Replace ==
    /\ pc = "branch"
    /\ Truthy(html)
    /\ all_servers' = servers[i][html[1].soup]
    /\ log' = Append(log, Entry("extract", i, <<>>))
    /\ pc' = "sleep"
    /\ UNCHANGED <<i, html, output, warned, fn, arg, ret>>

\* if html: extract the page and extend all_servers with its records
\* (all_servers.extend(servers)).
Extract ==
    /\ pc = "branch"
    /\ Truthy(html)
    /\ all_servers' = all_servers \o servers[i][html[1].soup]
    /\ log' = Append(log, Entry("extract", i, <<>>))
    /\ pc' = "sleep"
    /\ UNCHANGED <<i, html, output, warned, fn, arg, ret>>

\* A variant that would end the loop at the first failed fetch.
FetchFailed_Abort ==
    /\ pc = "branch"
    /\ ~Truthy(html)
    /\ pc' = "returned"
    /\ UNCHANGED <<i, html, all_servers, output, warned, log, fn, arg, ret>>

\* A variant that would fetch the URL again at once (while any URL is left).
FetchFailed_Retry ==
    /\ pc = "branch"
    /\ ~Truthy(html)
    /\ pc' = IF i < Len(urls) THEN "fetch" ELSE "sleep"
    /\ UNCHANGED <<i, html, all_servers, output, warned, log, fn, arg, ret>>

\* else: only the "Failed to fetch" line.
FetchFailed ==
    /\ pc = "branch"
    /\ ~Truthy(html)
    /\ pc' = "sleep"
    /\ UNCHANGED <<i, html, all_servers, output, warned, log, fn, arg, ret>>

\* time.sleep(2), the last statement of the loop body.
Sleep ==
    /\ pc = "sleep"
    /\ log' = Append(log, Entry("sleep", i, <<>>))
    /\ i' = i + 1
    /\ pc' = "loop"
    /\ UNCHANGED <<html, all_servers, output, warned, fn, arg, ret>>

\* main, "if servers:": save (the sample and the statistics only print).
MainSave ==
    /\ pc = "returned"
    /\ all_servers # <<>>
    /\ output' = Append(output, save_to_json(all_servers))
    /\ pc' = "done"
    /\ UNCHANGED <<i, html, all_servers, warned, log, fn, arg, ret>>

\* A variant that would write the empty document too.
MainWarn_Save ==
    /\ pc = "returned"
    /\ all_servers = <<>>
    /\ warned' = TRUE
    /\ output' = Append(output, save_to_json(all_servers))
    /\ pc' = "done"
    /\ UNCHANGED <<i, html, all_servers, log, fn, arg, ret>>

\* main, else: the warning.
MainWarn ==
    /\ pc = "returned"
    /\ all_servers = <<>>
    /\ warned' = TRUE
    /\ pc' = "done"
    /\ UNCHANGED <<i, html, all_servers, output, log, fn, arg, ret>>

NextMain ==
    \/ Start
    \/ LoopNext
    \/ Fetch
    \/ Extract
    \/ FetchFailed
    \/ Sleep
    \/ MainSave
    \/ MainWarn

SpecMain == Init /\ [][NextMain]_vars

\* The program is one thread that runs until main returns; every step ends
\* (the request has a timeout, the sleep is two seconds).
FairSpecMain == SpecMain /\ WF_vars(NextMain)

\* ------------------------------------------------------------------ claims

\* The number of tags called name below element n.
RECURSIVE TagCount(_, _), KidTagCount(_, _, _)
KidTagCount(n, name, k) ==
    IF k > Len(n.kids) THEN 0
    ELSE (IF n.kids[k].name = name THEN 1 ELSE 0) + TagCount(n.kids[k], name)
         + KidTagCount(n, name, k + 1)

TagCount(n, name) == KidTagCount(n, name, 1)

\* C1: parse_server_row returns no record for a row with 4 or fewer td cells or
\* with a th cell, whatever the text of its cells.
C1_RowRejection ==
    fn = "parse_server_row" =>
        ((TagCount(arg.row, "td") <= 4 \/ TagCount(arg.row, "th") > 0) => ret = <<>>)

\* A row of exactly 4 td cells and no th, whose processor, RAM and storage cells
\* all have text, was parsed to no record.
C1_Witness ==
    /\ fn = "parse_server_row"
    /\ TagCount(arg.row, "td") = 4
    /\ TagCount(arg.row, "th") = 0
    /\ Len(arg.row.kids) = 4
    /\ \A k \in 2..4 : extract_text_clean(arg.row.kids[k]) # <<>>
    /\ ret = <<>>

\* C5: the bandwidth patterns are tried in the order rate-unmetered, TB,
\* unmetered-bandwidth and only the first that matches is used; with
\* "unmetered" anywhere in the text the field is "<group> unmetered" (or
\* "Unmetered unmetered" when the third pattern won), also when the TB pattern
\* won; else it is the matched span; with no match it stays empty.
C5_BandwidthPriority ==
    fn = "parse_included_column" =>
        LET a == SearchRateUnmetered(arg)
            b == SearchTB(arg)
            c == SearchUnmeteredBandwidth(arg)
            unmetered == \E k \in 1..Len(arg) : Lower(arg[k]) = "unmetered"
        IN /\ a # <<>> => ret.bandwidth = a[1].groups[1] \o " unmetered"
           /\ (a = <<>> /\ b # <<>> /\ unmetered) =>
                  ret.bandwidth = b[1].groups[1] \o " unmetered"
           /\ (a = <<>> /\ b # <<>> /\ ~unmetered) => ret.bandwidth = b[1].g0
           /\ (a = <<>> /\ b = <<>> /\ c # <<>>) => ret.bandwidth = "Unmetered unmetered"
           /\ (a = <<>> /\ b = <<>> /\ c = <<>>) => ret.bandwidth = ""

\* The TB pattern won over a later "Unmetered Bandwidth" in the same text, and
\* the field was forced into the unmetered shape.
C5_Witness ==
    /\ fn = "parse_included_column"
    /\ SearchRateUnmetered(arg) = <<>>
    /\ SearchTB(arg) # <<>>
    /\ SearchUnmeteredBandwidth(arg) # <<>>
    /\ ret.bandwidth = "10 unmetered"

\* Document order of two different paths: p is above q, or left of it.
DocBefore(p, q) ==
    \/ Len(p) < Len(q) /\ SubSeq(q, 1, Len(p)) = p
    \/ \E k \in 1..Min(Len(p), Len(q)) :
          /\ SubSeq(p, 1, k - 1) = SubSeq(q, 1, k - 1)
          /\ p[k] < q[k]

\* q is below p in the tree.
IsUnder(p, q) == Len(p) < Len(q) /\ SubSeq(q, 1, Len(p)) = p

\* A set of paths as a sequence in document order.
RECURSIVE InDocOrder(_)
InDocOrder(S) ==
    IF S = {} THEN <<>>
    ELSE LET first == CHOOSE p \in S : \A q \in S \ {p} : DocBefore(p, q)
         IN <<first>> \o InDocOrder(S \ {first})

\* The paths of the tags below element n, whose own path is p.
RECURSIVE PathsBelow(_, _)
PathsBelow(n, p) ==
    UNION {{Append(p, k)} \cup PathsBelow(n.kids[k], Append(p, k)) : k \in 1..Len(n.kids)}

\* The paths of the tags called name of a page.
Tagged(root, name) == {p \in PathsBelow(root, <<>>) : NodeAt(root, p).name = name}

\* The records of the rows (every tr below it) of a table, in document order.
RECURSIVE RecordsOfRows(_, _, _)
RecordsOfRows(root, rows, category) ==
    IF rows = <<>> THEN <<>>
    ELSE parse_server_row(root, Head(rows), category)
         \o RecordsOfRows(root, Tail(rows), category)

RecordsOfTable(root, table, category) ==
    RecordsOfRows(root, InDocOrder({r \in Tagged(root, "tr") : IsUnder(table, r)}), category)

\* The tables a matched header can take: a table that is one of the first ten
\* tags after the header under the same parent, or is inside one.
TablesAfter(root, header) ==
    {t \in Tagged(root, "table") :
        /\ Len(t) >= Len(header)
        /\ SubSeq(t, 1, Len(header) - 1) = SubSeq(header, 1, Len(header) - 1)
        /\ t[Len(header)] - header[Len(header)] \in 1..10}

\* What the matched headers of a page give: for each, in document order, the
\* records of the first table among TablesAfter, with the section name added
\* to the category.
RECURSIVE ExpectedSections(_, _, _)
ExpectedSections(root, headers, category) ==
    IF headers = <<>> THEN <<>>
    ELSE LET tables == InDocOrder(TablesAfter(root, Head(headers)))
             name == JoinLines(extract_text_clean(NodeAt(root, Head(headers))))
         IN (IF tables = <<>> THEN <<>>
             ELSE RecordsOfTable(root, tables[1], category \o " - " \o name))
            \o ExpectedSections(root, Tail(headers), category)

\* What all the tables of a page give: the records of every table, in document
\* order of the tables, with the category as passed in.
RECURSIVE ExpectedTables(_, _, _)
ExpectedTables(root, tables, category) ==
    IF tables = <<>> THEN <<>>
    ELSE RecordsOfTable(root, Head(tables), category)
         \o ExpectedTables(root, Tail(tables), category)

\* C2: every record extract_server_details returns has a processor name, a RAM
\* text or a storage text.
C2_RetentionGate ==
    fn = "extract_server_details" =>
        \A k \in 1..Len(ret) :
            ret[k].processor.name # "" \/ ret[k].ram # "" \/ ret[k].storage # ""

\* A page with a section whose table holds a row of 5 or more cells, no th and
\* none of the three texts, next to a row that was kept.
C2_Witness ==
    /\ fn = "extract_server_details"
    /\ \E k \in 1..Len(ret) : ret[k].category # arg.category
    /\ \E r \in Tagged(arg.page, "tr") :
          /\ TagCount(NodeAt(arg.page, r), "td") >= 5
          /\ TagCount(NodeAt(arg.page, r), "th") = 0
          /\ \A k \in 2..4 : extract_text_clean(NodeAt(arg.page, r).kids[k]) = <<>>
          /\ \E t \in 1..Len(log) : IsUnder(SubSeq(r, 1, Len(r) - 1), log[t])

\* C4: when the matched headers give no record, extract_server_details returns
\* the records of every table of the page, in table order then row order, with
\* the category as passed in.
C4_FallbackAllTables ==
    fn = "extract_server_details" =>
        (ExpectedSections(arg.page, section_headers(arg.page), arg.category) = <<>> =>
            ret = ExpectedTables(arg.page, InDocOrder(Tagged(arg.page, "table")),
                                 arg.category))

\* A page with no matched header and three tables, all of which gave records.
C4_Witness ==
    /\ fn = "extract_server_details"
    /\ section_headers(arg.page) = <<>>
    /\ Cardinality({t \in Tagged(arg.page, "table") : Len(t) = 1}) = 3
    /\ \A t \in Tagged(arg.page, "table") : \E k \in 1..Len(log) : IsUnder(t, log[k])
    /\ \A k \in 1..Len(ret) : ret[k].category = arg.category

\* C6: each matched header takes the first table among its first 10 following
\* siblings (the sibling or the first table in it), and the rows of that table
\* are parsed with the category "<category> - <section name>"; a header with
\* no such table gives nothing, so a table that comes 11th or later is never
\* parsed for it.
C6_SectionTable ==
    fn = "extract_server_details" =>
        LET expected == ExpectedSections(arg.page, section_headers(arg.page), arg.category)
        IN /\ expected # <<>> => ret = expected
           /\ expected = <<>> => \A k \in 1..Len(ret) : ret[k].category = arg.category

\* A matched header whose only table is its 11th following sibling: the table
\* was parsed, but not for the header.
C6_Witness ==
    /\ fn = "extract_server_details"
    /\ section_headers(arg.page) = <<<<1>>>>
    /\ Len(arg.page.kids) = 12
    /\ Tagged(arg.page, "table") = {<<12>>}
    /\ ret # <<>>
    /\ \A k \in 1..Len(ret) : ret[k].category = arg.category

\* C10 as claimed: no row of the page is the source of two of the records
\* extract_server_details returns.
C10_RowParsedOnce ==
    fn = "extract_server_details" =>
        \A j, k \in 1..Len(log) : j # k => log[j] # log[k]

\* The fetches of the history, in order.
Fetches == SelectSeq(log, LAMBDA e : e.op = "fetch")

\* C3: a URL whose fetch fails leaves the accumulated list as it was, and the
\* run goes on: at the end every URL was fetched, and every page that was
\* fetched was extracted.
C3_FetchFailure ==
    /\ [][html' = <<>> => all_servers' = all_servers]_vars
    /\ [](pc = "done" =>
            /\ [k \in 1..Len(Fetches) |-> Fetches[k].url] = [k \in 1..Len(urls) |-> k]
            /\ \A k \in 1..Len(log) :
                  (log[k].op = "fetch" /\ Truthy(log[k].html)) =>
                      (k < Len(log) /\ log[k + 1] = Entry("extract", log[k].url, <<>>)))

\* A run that ended with records, in which a fetch failed after a page had
\* given records and a later page was fetched.
C3_Witness ==
    /\ pc = "done"
    /\ all_servers # <<>>
    /\ Len(Fetches) = Len(urls)
    /\ Truthy(Fetches[1].html)
    /\ Fetches[2].html = <<>>
    /\ Truthy(Fetches[3].html)
    /\ Len(all_servers) > Len(extract_server_details(Fetches[1].html[1].soup, Category(urls[1])))

\* What the loop does for URL n when fetch_page returns h.
Block(n, h) ==
    <<Entry("fetch", n, h)>>
    \o (IF Truthy(h) THEN <<Entry("extract", n, <<>>)>> ELSE <<>>)
    \o <<Entry("sleep", n, <<>>)>>

RECURSIVE Blocks(_, _)
Blocks(fetches, n) ==
    IF n > Len(fetches) THEN <<>>
    ELSE Block(n, fetches[n].html) \o Blocks(fetches, n + 1)

\* C7: the history is, URL after URL in the order of the list, one fetch, the
\* extraction of the page if there is one, and one sleep; no URL is fetched
\* twice; and the run ends.
C7_SequentialInv ==
    /\ Len(Fetches) <= Len(urls)
    /\ Len(log) <= Len(Blocks(Fetches, 1))
    /\ log = SubSeq(Blocks(Fetches, 1), 1, Len(log))
    /\ pc \in {"returned", "done"} => (Len(Fetches) = Len(urls) /\ log = Blocks(Fetches, 1))

C7_Sequential == []C7_SequentialInv /\ <>(pc = "done")

\* A finished run with a failed fetch followed by a fetch that gave a page.
C7_Witness ==
    /\ pc = "done"
    /\ Len(Fetches) = Len(urls)
    /\ Fetches[5].html = <<>>
    /\ Truthy(Fetches[6].html)

\* The records of the pages fetched, URL after URL.
RECURSIVE RecordsOfFetches(_, _)
RecordsOfFetches(fetches, n) ==
    IF n > Len(fetches) THEN <<>>
    ELSE (IF Truthy(fetches[n].html)
          THEN extract_server_details(fetches[n].html[1].soup, Category(urls[fetches[n].url]))
          ELSE <<>>)
         \o RecordsOfFetches(fetches, n + 1)

\* C8: in a written document total_servers is the number of records of servers,
\* and servers is the records of the fetched pages, in URL order and in each
\* page's order, as they were extracted.
C8_SavedDocument ==
    \A k \in 1..Len(output) :
        /\ output[k].total_servers = Len(output[k].servers)
        /\ output[k].servers = RecordsOfFetches(Fetches, 1)

\* A document with the records of two pages and a failed fetch between them.
C8_Witness ==
    /\ output # <<>>
    /\ Truthy(Fetches[1].html)
    /\ Fetches[2].html = <<>>
    /\ Truthy(Fetches[3].html)
    /\ \E j, k \in 1..Len(output[1].servers) :
          output[1].servers[j].category # output[1].servers[k].category

\* C9: a document is written only at the end, once, and exactly when
\* scrape_all returned a record; else there is only the warning, and no
\* document with total_servers = 0 is ever written.
C9_SaveIffRecords ==
    /\ Len(output) <= 1
    /\ \A k \in 1..Len(output) : output[k].total_servers > 0
    /\ output # <<>> => (pc = "done" /\ Len(Fetches) = Len(urls))
    /\ warned => (pc = "done" /\ output = <<>>)
    /\ pc = "done" => ((output # <<>>) <=> (all_servers # <<>>))
    /\ pc = "done" => (warned <=> (all_servers = <<>>))

\* A finished run in which a page was fetched, no row was kept, and nothing was
\* written.
C9_Witness ==
    /\ pc = "done"
    /\ \E k \in 1..Len(Fetches) : Truthy(Fetches[k].html)
    /\ warned
    /\ output = <<>>

====
